---- MODULE Spec2Model ----
(***************************************************************************)
(* Model of the prompt pipeline of NL-Backend:                             *)
(*   promptController.js  createPrompt / executePrompt request handlers    *)
(*                        and the deferred processPrompt / executeCode     *)
(*                        stages,                                          *)
(*   claudeService.js     generateCode / generateInsights,                 *)
(*   dbUtils.js           createDocument / getDocument / updateDocument,   *)
(*   errorHandler.js      AppError.                                        *)
(* The handlers and stages are asynchronous: an action is the arrival of   *)
(* one external answer (a document read, a model reply, a timer) together  *)
(* with the synchronous continuation and the document update that the      *)
(* continuation issues.  Requests and prompts are numbered in the order    *)
(* of their arrival.  In Spec the document store answers every call.       *)
(* LiveSpec is Spec with fair scheduling of the callbacks, FaultSpec is    *)
(* LiveSpec with a document store that can reject a write.  ServiceSpec    *)
(* calls the functions of claudeService and contextEnricher on their own,  *)
(* ReadSpec calls the read handlers on the documents the pipeline stores.  *)
(***************************************************************************)
EXTENDS Integers, Sequences, FiniteSets, TLC

\* ------------------------------------------------------------------ bounds
MaxPrompts == 1
MaxExecReqs == 2

PromptIds == 1..MaxPrompts
ExecReqs == 1..MaxExecReqs

\* ------------------------------------------------------- JavaScript values
\* Strings are sequences of tokens, so that '' is <<>> and template
\* concatenation is \o.
Undefined == [t |-> "undefined"]
Null == [t |-> "null"]
Str(s) == [t |-> "str", s |-> s]
Arr(a) == [t |-> "arr", a |-> a]
Num == [t |-> "number"]
Obj(v, i, e) == [t |-> "object", visualizations |-> v, insights |-> i, error |-> e]

\* JavaScript truthiness: undefined, null and '' are falsy; arrays and
\* objects (also the empty array) are truthy.
Truthy(x) ==
  CASE x.t = "undefined" -> FALSE
    [] x.t = "null" -> FALSE
    [] x.t = "str" -> x.s # <<>>
    [] OTHER -> TRUE

\* a || b
OrElse(a, b) == IF Truthy(a) THEN a ELSE b

\* String.prototype.trim on a token sequence; " " is the whitespace token.
RECURSIVE TrimLeft(_)
TrimLeft(s) == IF s # <<>> /\ Head(s) = " " THEN TrimLeft(Tail(s)) ELSE s

RECURSIVE TrimRight(_)
TrimRight(s) ==
  IF s # <<>> /\ s[Len(s)] = " " THEN TrimRight(SubSeq(s, 1, Len(s) - 1)) ELSE s

Trim(s) == TrimRight(TrimLeft(s))

\* ------------------------------------------------------------ PROMPT_STATUS
CREATED == "created"
PROCESSING == "processing"
GENERATED == "generated"
EXECUTING == "executing"
COMPLETED == "completed"
FAILED == "failed"

\* -------------------------------------------------------------- AppError
\* new AppError(message, statusCode, errorCode): the class sets .errorCode,
\* it has no .code property.
AppError(message, statusCode, errorCode) ==
  [t |-> "error", message |-> message, statusCode |-> statusCode,
   errorCode |-> errorCode, code |-> Undefined]

\* ------------------------------------------------------------ the requests
\* req.user of the three kinds of principal: member of a team, user record
\* without a teamId field, user record whose teamId is null.
Principals ==
  { [uid |-> "u1", teamId |-> Str(<<"t1">>)],
    [uid |-> "u2", teamId |-> Undefined],
    [uid |-> "u3", teamId |-> Null] }

\* The principals that submit prompts.
Creators == { u \in Principals : u.uid \in {"u1", "u2"} }

\* req.body.prompt of createPrompt
PromptTexts == { Undefined, Str(<<>>), Str(<<" ">>), Str(<<"Show revenue trend">>) }

\* req.body.datasetIds
DatasetIdLists == { <<"ds1", "ds2">> }

\* req.body.settings
SettingsValues == { [visualizationType |-> "bar"] }

\* The datasets collection; the pipeline reads it and never writes it.
NoDoc == [t |-> "nodoc"]

\* A dataset document; sampleData is the cached sample of schema.sampleData,
\* Undefined when the document has none.
DatasetDoc(id, ownerId, teamId, sampleData) ==
  [t |-> "doc", id |-> id, name |-> id, ownerId |-> ownerId, teamId |-> teamId,
   schema |-> [sampleData |-> sampleData]]

Datasets ==
  [d \in {"ds1", "ds2"} |->
     IF d = "ds1" THEN DatasetDoc("ds1", "u1", Null, Arr(<<"row1">>)) ELSE NoDoc]

\* What the datasets collection can hold under an id: nothing, a private
\* dataset of u1 with cached sample rows, a private dataset of u2, a
\* dataset of u2 shared with team t2.
DatasetDocs(id) ==
  { NoDoc,
    DatasetDoc(id, "u1", Null, Arr(<<"row1">>)),
    DatasetDoc(id, "u2", Null, Undefined),
    DatasetDoc(id, "u2", Str(<<"t2">>), Undefined) }

DatasetStores ==
  { st \in [{"ds1", "ds2"} -> DatasetDocs("ds1") \cup DatasetDocs("ds2")] :
      \A d \in {"ds1", "ds2"} : st[d] \in DatasetDocs(d) }

VARIABLES
  prompts,   \* the prompts collection of the document store
  create,    \* the createPrompt request handlers, one per prompt id
  proc,      \* the processPrompt stages, one per created prompt
  exec,      \* the executePrompt request handlers
  code,      \* the executeCode stages, one per executePrompt request
  call       \* the latest call of a read handler or of a service function

vars == <<prompts, create, proc, exec, code, call>>

\* The handlers and stages are callbacks of one Node.js event loop: while
\* a callback runs none of the others is run.  The generated code is called
\* synchronously in executeCode (promptController.js lines 396-405), so a
\* call that does not return keeps the event loop from every other
\* callback.
eventLoopBlocked == \E r \in DOMAIN code : code[r].pc = "running"

\* --------------------------------------------------------------- dbUtils
\* getDocument(collection, id)
getDocument(coll, id) == coll[id]

\* Firestore update: the fields of data replace those of the stored
\* document, every other field keeps its value.
merge(doc, data) ==
  [f \in DOMAIN doc |-> IF f \in DOMAIN data THEN data[f] ELSE doc[f]]

\* Variant of updateDocument that stores data as the whole document: the
\* fields that data does not name are lost.
updateDocument_set(id, data) ==
  [prompts EXCEPT ![id] =
     [f \in DOMAIN prompts[id] |->
        IF f \in DOMAIN data THEN data[f]
        ELSE IF f \in {"t", "id"} THEN prompts[id][f] ELSE Undefined]]

\* updateDocument('prompts', id, data), lines 75-84: a partial merge of the
\* fields of data into the stored document.
updateDocument(id, data) == [prompts EXCEPT ![id] = merge(prompts[id], data)]

\* ----------------------------------------------------------------- Init
IdleCreate == [pc |-> "idle", resp |-> Undefined]
IdleProc == [pc |-> "none"]
IdleExec == [pc |-> "idle", resp |-> Undefined]
IdleCode == [pc |-> "none"]
IdleCall == [fn |-> "none"]

Init ==
  /\ prompts = [p \in PromptIds |-> NoDoc]
  /\ create = [p \in PromptIds |-> IdleCreate]
  /\ proc = [p \in PromptIds |-> IdleProc]
  /\ exec = [r \in ExecReqs |-> IdleExec]
  /\ code = [r \in ExecReqs |-> IdleCode]
  /\ call = IdleCall

\* --------------------------------------------------------- createPrompt
\* Line 26: !prompt || prompt.trim() === ''
IsBlank(text) == IF ~Truthy(text) THEN TRUE ELSE Trim(text.s) = <<>>

\* Lines 22-28: the request is rejected with INVALID_INPUT when the prompt
\* text is missing or blank; nothing is stored.
createPrompt_invalid(p, text) ==
  /\ ~eventLoopBlocked
  /\ create[p].pc = "idle"
  /\ \A q \in PromptIds : q < p => create[q].pc # "idle"
  /\ IsBlank(text)
  /\ create' = [create EXCEPT ![p] =
       [pc |-> "done",
        resp |-> AppError(<<"Prompt text is required">>, 400, "INVALID_INPUT")]]
  /\ UNCHANGED <<prompts, proc, exec, code, call>>

\* Lines 31-44: the document of a new prompt, with the id createDocument
\* gives it.
promptData(p, user, text, datasetIds, settings) ==
  [t |-> "doc",
   id |-> p,
   userId |-> user.uid,
   teamId |-> OrElse(user.teamId, Null),
   prompt |-> text,
   datasetIds |-> datasetIds,
   settings |-> settings,
   status |-> CREATED,
   enhancedPrompt |-> Null,
   generatedCode |-> Null,
   executionResults |-> Null,
   insights |-> Null,
   error |-> Null]

\* Lines 31-47: the prompt document is built and createDocument stores it.
createPrompt_save(p, user, text, datasetIds, settings) ==
  /\ ~eventLoopBlocked
  /\ create[p].pc = "idle"
  /\ \A q \in PromptIds : q < p => create[q].pc # "idle"
  /\ ~IsBlank(text)
  /\ prompts' = [prompts EXCEPT ![p] = promptData(p, user, text, datasetIds, settings)]
  /\ create' = [create EXCEPT ![p] =
       [pc |-> "saved", resp |-> Undefined, user |-> user, text |-> text,
        datasetIds |-> datasetIds]]
  /\ UNCHANGED <<proc, exec, code, call>>

\* Variant of createPrompt_respond that starts processPrompt and holds the
\* response back until the stage has finished.
createPrompt_respond_awaits(p) ==
  /\ ~eventLoopBlocked
  /\ create[p].pc = "saved"
  /\ proc' = [proc EXCEPT ![p] =
       [pc |-> "scheduled", promptId |-> p, userId |-> create[p].user.uid,
        promptText |-> create[p].text, datasetIds |-> create[p].datasetIds,
        user |-> create[p].user]]
  /\ create' = [create EXCEPT ![p].pc = "awaiting"]
  /\ UNCHANGED <<prompts, exec, code, call>>

\* Lines 49-64, the continuation of the await: setTimeout schedules
\* processPrompt and the 201 response is sent in the same synchronous run.
createPrompt_respond(p) ==
  /\ ~eventLoopBlocked
  /\ create[p].pc = "saved"
  /\ proc' = [proc EXCEPT ![p] =
       [pc |-> "scheduled", promptId |-> p, userId |-> create[p].user.uid,
        promptText |-> create[p].text, datasetIds |-> create[p].datasetIds,
        user |-> create[p].user]]
  /\ create' = [create EXCEPT ![p] =
       [pc |-> "done", resp |-> [t |-> "ok", promptId |-> p, status |-> CREATED]]]
  /\ UNCHANGED <<prompts, exec, code, call>>

\* ------------------------------------------------------- contextEnricher
\* What the enrichment of one prompt meets outside the process:
\*   userContext  addUserContext builds its text, or the orchestration of
\*                enhancePrompt throws,
\*   team         getDocument('teams', teamId) finds the team, finds none,
\*                or throws,
\*   fetch        the getDocument calls on the datasets answer, or one throws,
\*   datasets     the datasets collection,
\*   download     file.download and the parsing of getSampleData give rows,
\*                or fail.
EnrichEnvs ==
  [userContext : {"ok", "throws"},
   team : {"found", "missing", "throws"},
   fetch : {"ok", "throws"},
   datasets : DatasetStores,
   download : {"rows", "fails"}]

\* JSON.stringify of an array of rows.
Stringify(rows) == <<"[">> \o rows.a \o <<"]">>

\* addUserContext, lines 97-145.
addUserContext(user, env) ==
  IF env.userContext = "throws" THEN [threw |-> TRUE]
  ELSE [threw |-> FALSE, value |-> <<"USER PREFERENCES:">>]

\* Lines 153-179, the body of the try of addTeamContext.
addTeamContext_try(teamId, env) ==
  IF env.team = "throws" THEN [threw |-> TRUE]
  ELSE IF env.team = "missing" THEN [threw |-> FALSE, value |-> <<>>]
  ELSE [threw |-> FALSE, value |-> <<"TEAM CONTEXT:">>]

\* Variant of addTeamContext whose catch rethrows.
addTeamContext_rethrows(teamId, env) == addTeamContext_try(teamId, env)

\* addTeamContext, lines 152-184: the catch returns "".
addTeamContext(teamId, env) ==
  LET body == addTeamContext_try(teamId, env)
  IN IF body.threw THEN [threw |-> FALSE, value |-> <<>>] ELSE body

\* getSampleData, lines 265-326: every failure of the download or of the
\* parsing is caught and gives [].
getSampleData(dataset, env) ==
  IF env.download = "fails" THEN Arr(<<>>) ELSE Arr(<<"downloaded row">>)

\* Variant of CanUse without the permission test.
CanUse_any(ds, userId) == ds # NoDoc

\* Line 203: ds !== null && (ds.ownerId === userId || ds.teamId)
CanUse(ds, userId) ==
  IF ds = NoDoc THEN FALSE ELSE ds.ownerId = userId \/ Truthy(ds.teamId)

\* Lines 197-204: the documents of the ids, in order, that pass the filter.
RECURSIVE validDatasets(_, _, _)
validDatasets(datasetIds, userId, env) ==
  IF datasetIds = <<>> THEN <<>>
  ELSE LET ds == getDocument(env.datasets, Head(datasetIds))
       IN (IF CanUse(ds, userId) THEN <<ds>> ELSE <<>>)
          \o validDatasets(Tail(datasetIds), userId, env)

\* Lines 212-250: the section of one dataset.
datasetSection(dataset, env) ==
  <<"DATASET:", dataset.name, "Sample Data:">>
  \o (IF ~Truthy(dataset.schema.sampleData)
        THEN Stringify(getSampleData(dataset, env))
        ELSE Stringify(dataset.schema.sampleData))

RECURSIVE datasetSections(_, _)
datasetSections(valid, env) ==
  IF valid = <<>> THEN <<>>
  ELSE datasetSection(Head(valid), env) \o datasetSections(Tail(valid), env)

\* addDatasetContext, lines 192-258: the catch replaces the whole context
\* by one note.
addDatasetContext(datasetIds, userId, env) ==
  IF env.fetch = "throws"
    THEN [threw |-> FALSE, value |-> <<"Error retrieving dataset information.">>]
  ELSE LET valid == validDatasets(datasetIds, userId, env)
       IN IF valid = <<>>
            THEN [threw |-> FALSE, value |-> <<"No valid datasets available.">>]
          ELSE [threw |-> FALSE, value |-> <<"DATASETS:">> \o datasetSections(valid, env)]

\* addCodeInstructions, lines 332-359.
addCodeInstructions == <<"CODE GENERATION INSTRUCTIONS:">>

\* The enrichments of the pipeline: everything answers, or the
\* orchestration throws.
EnrichOutcomes ==
  { env \in EnrichEnvs :
      /\ env.team = "found" /\ env.fetch = "ok" /\ env.download = "rows"
      /\ env.datasets = Datasets }

\* enhancePrompt, lines 62-90: the enriched text starts with the original
\* request; any exception of the orchestration is rethrown as AppError
\* CONTEXT_ENHANCEMENT_ERROR.
enhancePrompt(prompt, datasetIds, user, env) ==
  LET userPart == addUserContext(user, env)
      teamPart == IF Truthy(user.teamId) THEN addTeamContext(user.teamId, env)
                  ELSE [threw |-> FALSE, value |-> <<>>]
      dataPart == IF datasetIds # <<>> THEN addDatasetContext(datasetIds, user.uid, env)
                  ELSE [threw |-> FALSE, value |-> <<>>]
  IN IF userPart.threw \/ teamPart.threw \/ dataPart.threw
       THEN [ok |-> FALSE,
             error |-> AppError(<<"Error preparing analysis context">>, 500,
                                "CONTEXT_ENHANCEMENT_ERROR")]
     ELSE [ok |-> TRUE,
           value |-> Str(<<"ORIGINAL REQUEST: ">> \o prompt.s \o userPart.value
                         \o teamPart.value \o dataPart.value \o addCodeInstructions)]

\* --------------------------------------------------------- claudeService
\* The texts the remote model can answer generateCode with: nothing, a
\* blank, a program.  What a program does when it is executed is not a
\* function of the model of its text: it is one of Behaviours.
CodeTexts == { <<>>, <<" ">>, <<"function analyze(context) { ... }">> }

\* The replies of client.post in generateCode.
CodeReplies ==
  { [kind |-> "network_error"],
    [kind |-> "http_error", message |-> Str(<<"overloaded">>)],
    [kind |-> "http_error", message |-> Undefined],
    [kind |-> "malformed"] }
  \cup { [kind |-> "ok", text |-> Str(c)] : c \in CodeTexts }

\* Variant of generateCode whose test of line 81 is !generatedCode alone.
generateCode_noTrim(enhancedPrompt, reply) ==
  IF reply.kind = "ok" /\ Truthy(reply.text)
    THEN [ok |-> TRUE, generatedCode |-> reply.text]
  ELSE [ok |-> FALSE,
        error |-> AppError(<<"Failed to generate code from Claude API">>, 500,
                           "CLAUDE_SERVICE_ERROR")]

\* generateCode, lines 33-103: the empty-response AppError of line 82 is
\* thrown inside the try and is rethrown by the catch as
\* CLAUDE_SERVICE_ERROR, like every error without a response.
generateCode(enhancedPrompt, reply) ==
  IF reply.kind = "ok" /\ ~IsBlank(reply.text)
    THEN [ok |-> TRUE, generatedCode |-> reply.text]
  ELSE IF reply.kind = "http_error"
    THEN [ok |-> FALSE,
          error |-> AppError(<<"Error from Claude API: ">>
                               \o OrElse(reply.message, Str(<<"Unknown error">>)).s,
                             500, "CLAUDE_API_ERROR")]
  ELSE [ok |-> FALSE,
        error |-> AppError(<<"Failed to generate code from Claude API">>, 500,
                           "CLAUDE_SERVICE_ERROR")]

\* -------------------------------------------------------- processPrompt
\* An action is the arrival of one external answer together with the
\* synchronous continuation and the document update that the continuation
\* issues: between an answer and that update the stage touches nothing
\* that another handler reads or writes, so the update is placed at the
\* moment of the answer.

\* The error record of lines 340-344.
processPromptError(error) ==
  [t |-> "error",
   message |-> error.message,
   code |-> OrElse(error.code, Str(<<"PROCESSING_ERROR">>)),
   stage |-> "code_generation"]

\* Variant of processPrompt_catch that starts the stage again after the
\* failure is recorded.
processPrompt_catch_retries(p, error) ==
  /\ prompts' = updateDocument(p, [status |-> FAILED,
                                   error |-> processPromptError(error)])
  /\ proc' = [proc EXCEPT ![p].pc = "scheduled"]

\* Lines 334-346, the catch: status := failed and the error record.
processPrompt_catch(p, error) ==
  /\ prompts' = updateDocument(p, [status |-> FAILED,
                                   error |-> processPromptError(error)])
  /\ proc' = [proc EXCEPT ![p] = [pc |-> "done"]]

\* Lines 50-55 and 310-312: the timer of createPrompt fires and
\* status := processing.
processPrompt_processing(p) ==
  /\ ~eventLoopBlocked
  /\ proc[p].pc = "scheduled"
  /\ prompts' = updateDocument(p, [status |-> PROCESSING])
  /\ proc' = [proc EXCEPT ![p].pc = "enhance"]
  /\ UNCHANGED <<create, exec, code, call>>

\* Lines 316-321: contextEnricher.enhancePrompt on the arguments the
\* request handed over, and the enhanced text is stored; a throw goes to
\* the catch.
processPrompt_enhance(p, outcome) ==
  /\ ~eventLoopBlocked
  /\ proc[p].pc = "enhance"
  /\ LET r == enhancePrompt(proc[p].promptText, proc[p].datasetIds,
                            proc[p].user, outcome)
     IN IF r.ok
          THEN /\ prompts' = updateDocument(p, [enhancedPrompt |-> r.value])
               /\ proc' = [proc EXCEPT ![p] =
                    [proc[p] EXCEPT !.pc = "generate"] @@ [enhancedPrompt |-> r.value]]
          ELSE processPrompt_catch(p, r.error)
  /\ UNCHANGED <<create, exec, code, call>>

\* Lines 325-333: claudeService.generateCode, then generatedCode and
\* status := generated are stored; a throw goes to the catch.
processPrompt_generate(p, reply) ==
  /\ ~eventLoopBlocked
  /\ proc[p].pc = "generate"
  /\ LET r == generateCode(proc[p].enhancedPrompt, reply)
     IN IF r.ok
          THEN /\ prompts' = updateDocument(p, [generatedCode |-> r.generatedCode,
                                                status |-> GENERATED])
               /\ proc' = [proc EXCEPT ![p] = [pc |-> "done"]]
          ELSE processPrompt_catch(p, r.error)
  /\ UNCHANGED <<create, exec, code, call>>

\* ------------------------------------------ claudeService.generateInsights
\* The replies of client.post in generateInsights: the call fails, the
\* body has no content[0].text, the text is not JSON, the JSON is not an
\* array, the JSON is an array.
InsightReplies ==
  { [kind |-> "network_error"],
    [kind |-> "malformed"],
    [kind |-> "text", json |-> Undefined],
    [kind |-> "text", json |-> Obj(Undefined, Undefined, Undefined)],
    [kind |-> "text", json |-> Arr(<<>>)],
    [kind |-> "text", json |-> Arr(<<"llm insight">>)] }

\* Lines 149-160: the replies on which the call fails to obtain a list of
\* insights.
InsightFailures ==
  { reply \in InsightReplies : reply.kind # "text" \/ reply.json.t # "arr" }

\* Lines 112-155, the body of the outer try: client.post rejects (line
\* 144) or reading content[0].text of a malformed body throws (line 147);
\* JSON.parse of line 150 throws on a text that is not JSON (json =
\* Undefined) and the inner catch returns []; a parsed value that is not an
\* array gives [].
generateInsights_try(results, originalPrompt, reply) ==
  IF reply.kind # "text" THEN [threw |-> TRUE]
  ELSE IF reply.json.t = "undefined" THEN [threw |-> FALSE, value |-> Arr(<<>>)]
  ELSE [threw |-> FALSE,
        value |-> IF reply.json.t = "arr" THEN reply.json ELSE Arr(<<>>)]

\* Variant of generateInsights_outcome whose outer catch rethrows.
generateInsights_rethrows(results, originalPrompt, reply) ==
  generateInsights_try(results, originalPrompt, reply)

\* Lines 111-161 with the catch of lines 156-160, which returns [].
generateInsights_outcome(results, originalPrompt, reply) ==
  LET body == generateInsights_try(results, originalPrompt, reply)
  IN IF body.threw THEN [threw |-> FALSE, value |-> Arr(<<>>)] ELSE body

\* Variant of generateInsights without the Array.isArray test of line 151.
generateInsights_anyJson(results, originalPrompt, reply) ==
  IF reply.kind = "text" /\ reply.json.t # "undefined" THEN reply.json ELSE Arr(<<>>)

\* generateInsights, lines 111-161, as its caller sees it: the value
\* returned.
generateInsights(results, originalPrompt, reply) ==
  generateInsights_outcome(results, originalPrompt, reply).value

\* ------------------------------------------------------- executePrompt
\* executionOptions after validation (promptModels.js lines 32-40).
ExecutionOptions == [timeout |-> 30000, memoryLimit |-> 512]

\* Lines 151, 209, 269: the ownership check, with !== on both sides.
AccessDenied(prompt, user) ==
  prompt.userId # user.uid /\ prompt.teamId # user.teamId

\* Variant of NotReady that lets a completed prompt be executed again.
NotReady_rerun(prompt) == prompt.status \notin {GENERATED, COMPLETED}

\* Line 214: the prompt has no generated code to run.
NotReady(prompt) == prompt.status # GENERATED

\* Lines 204-221: the error the handler throws for the document it read,
\* Undefined when the three checks pass.
executePromptError(prompt, user) ==
  IF prompt = NoDoc
    THEN AppError(<<"Prompt not found">>, 404, "PROMPT_NOT_FOUND")
  ELSE IF AccessDenied(prompt, user)
    THEN AppError(<<"You do not have access to this prompt">>, 403, "ACCESS_DENIED")
  ELSE IF NotReady(prompt)
    THEN AppError(<<"Prompt is not ready for execution">>, 400, "INVALID_PROMPT_STATE")
  ELSE Undefined

\* Lines 202-221 and 244-247: getDocument answers, a check fails on the
\* document read and the handler ends in next(error).
executePrompt_reject(r, id, user) ==
  /\ ~eventLoopBlocked
  /\ exec[r].pc = "idle"
  /\ \A q \in ExecReqs : q < r => exec[q].pc # "idle"
  /\ executePromptError(getDocument(prompts, id), user) # Undefined
  /\ exec' = [exec EXCEPT ![r] =
       [pc |-> "done", resp |-> executePromptError(getDocument(prompts, id), user)]]
  /\ UNCHANGED <<prompts, create, proc, code, call>>

\* Lines 202-226: getDocument answers, the checks pass on the document
\* read and the update of line 224 is issued.
executePrompt_accept(r, id, user) ==
  /\ ~eventLoopBlocked
  /\ exec[r].pc = "idle"
  /\ \A q \in ExecReqs : q < r => exec[q].pc # "idle"
  /\ executePromptError(getDocument(prompts, id), user) = Undefined
  /\ exec' = [exec EXCEPT ![r] =
       [pc |-> "w_executing", resp |-> Undefined, id |-> id,
        prompt |-> getDocument(prompts, id)]]
  /\ UNCHANGED <<prompts, create, proc, code, call>>

\* Variant of executePrompt_executing that launches executeCode and
\* answers without the update of line 224.
executePrompt_executing_unsaved(r) ==
  /\ ~eventLoopBlocked
  /\ exec[r].pc = "w_executing"
  /\ code' = [code EXCEPT ![r] =
       [pc |-> "scheduled", promptId |-> exec[r].id,
        code |-> exec[r].prompt.generatedCode,
        datasetIds |-> exec[r].prompt.datasetIds,
        options |-> ExecutionOptions,
        originalPrompt |-> exec[r].prompt.prompt]]
  /\ exec' = [exec EXCEPT ![r] =
       [pc |-> "done",
        resp |-> [t |-> "ok", promptId |-> exec[r].id, status |-> EXECUTING]]]
  /\ UNCHANGED <<prompts, create, proc, call>>

\* Lines 224-243: status := executing, then the continuation: setTimeout
\* schedules executeCode with the fields of the document read at line 202,
\* and the response is sent.
executePrompt_executing(r) ==
  /\ ~eventLoopBlocked
  /\ exec[r].pc = "w_executing"
  /\ prompts' = updateDocument(exec[r].id, [status |-> EXECUTING])
  /\ code' = [code EXCEPT ![r] =
       [pc |-> "scheduled", promptId |-> exec[r].id,
        code |-> exec[r].prompt.generatedCode,
        datasetIds |-> exec[r].prompt.datasetIds,
        options |-> ExecutionOptions,
        originalPrompt |-> exec[r].prompt.prompt]]
  /\ exec' = [exec EXCEPT ![r] =
       [pc |-> "done",
        resp |-> [t |-> "ok", promptId |-> exec[r].id, status |-> EXECUTING]]]
  /\ UNCHANGED <<create, proc, call>>

\* ---------------------------------------------------------- executeCode
\* What the function built from a generated text does when it is called:
\* new Function rejects the text, the body throws an Error with a message
\* (possibly the empty one), the body returns a value, or the body never
\* returns (a loop without end).
Behaviours ==
  { [kind |-> "syntax", message |-> <<"Unexpected token">>],
    [kind |-> "loop"],
    [kind |-> "throw", message |-> <<"boom">>],
    [kind |-> "throw", message |-> <<>>],
    [kind |-> "return", value |-> Undefined],
    [kind |-> "return", value |-> Num],
    [kind |-> "return",
     value |-> Obj(Arr(<<"chart">>), Arr(<<"code insight">>), Undefined)],
    [kind |-> "return", value |-> Obj(Arr(<<"chart">>), Arr(<<>>), Undefined)],
    [kind |-> "return", value |-> Obj(Arr(<<"chart">>), Undefined, Undefined)],
    [kind |-> "return", value |-> Obj(Undefined, Undefined, Undefined)],
    [kind |-> "return",
     value |-> Obj(Arr(<<"chart">>), Arr(<<>>), Str(<<"bad data">>))] }

\* value.field of a value that is not undefined or null: a number has no
\* such property.
Get(value, field) == IF value.t = "object" THEN value[field] ELSE Undefined

\* The function of new Function runs in the host process with its global
\* scope: a body can read process.env or reach the net module through
\* process.  host is what the body finds there; such a body returns a
\* chart and an insight made of what it found.
HostStates == { "secret-a", "secret-b" }

HostBehaviours ==
  { [kind |-> "host", reads |-> rd, host |-> h] :
    rd \in {"env", "socket"}, h \in HostStates }

\* Lines 396-405: the generated body runs inside try/catch, whose catch
\* returns { error: error.message }.
execFunc(b, context) ==
  IF b.kind = "throw" THEN Obj(Undefined, Undefined, Str(b.message))
  ELSE IF b.kind = "host" THEN Obj(Arr(<<"chart">>), Arr(<<b.host>>), Undefined)
  ELSE b.value

CodeExecutionError(message) ==
  AppError(<<"Error executing code: ">> \o message, 500, "CODE_EXECUTION_ERROR")

\* Lines 386-413: a SyntaxError of new Function, the TypeError of reading
\* .error of undefined, and a truthy results.error all end in the AppError
\* of line 412.
runGeneratedCode(b, context) ==
  IF b.kind = "syntax"
    THEN [ok |-> FALSE, error |-> CodeExecutionError(b.message)]
  ELSE LET results == execFunc(b, context)
       IN IF results.t \in {"undefined", "null"}
            THEN [ok |-> FALSE,
                  error |-> CodeExecutionError(<<"Cannot read properties of undefined">>)]
          ELSE IF Truthy(Get(results, "error"))
            THEN [ok |-> FALSE, error |-> CodeExecutionError(Get(results, "error").s)]
          ELSE [ok |-> TRUE, results |-> results]

\* Lines 366-381: the datasets that exist, with their cached sample rows.
RECURSIVE datasetSamples(_)
datasetSamples(datasetIds) ==
  IF datasetIds = <<>> THEN <<>>
  ELSE LET ds == IF Head(datasetIds) \in DOMAIN Datasets
                   THEN getDocument(Datasets, Head(datasetIds)) ELSE NoDoc
       IN (IF ds = NoDoc THEN <<>>
           ELSE << [id |-> ds.id, name |-> ds.name, data |-> ds.schema.sampleData] >>)
          \o datasetSamples(Tail(datasetIds))

\* Line 417: insights are asked of the model.
NeedsInsights(insights, results) ==
  (~Truthy(insights) \/ Len(insights.a) = 0) /\ Truthy(Get(results, "visualizations"))

\* Variant of executeCodeError that names the stage of processPrompt.
executeCodeError_otherStage(error) ==
  [t |-> "error",
   message |-> error.message,
   code |-> OrElse(error.code, Str(<<"EXECUTION_ERROR">>)),
   stage |-> "code_generation"]

\* The error record of lines 436-440.
executeCodeError(error) ==
  [t |-> "error",
   message |-> error.message,
   code |-> OrElse(error.code, Str(<<"EXECUTION_ERROR">>)),
   stage |-> "code_execution"]

\* Lines 362-441: the timer of executePrompt fires, the datasets are read
\* (the collection is never written, so the moment of the read is
\* immaterial) and the generated code runs synchronously as b.  The
\* options, with their timeout, are handed to the code in its context and
\* nothing else reads them: a call that does not return is never ended,
\* and the stage stays in that call.  A failed
\* run goes to the catch of line 430: status := failed and the error
\* record.  Otherwise the stage either awaits generateInsights or stores
\* status := completed with the results and their insights.
executeCode_run(r, b) ==
  /\ ~eventLoopBlocked
  /\ code[r].pc = "scheduled"
  /\ LET executionContext == [datasets |-> datasetSamples(code[r].datasetIds),
                              options |-> code[r].options]
         run == runGeneratedCode(b, executionContext)
         insights == OrElse(Get(run.results, "insights"), Arr(<<>>))
     IN IF b.kind = "loop"
          THEN /\ prompts' = prompts
               /\ code' = [code EXCEPT ![r].pc = "running"]
        ELSE IF ~run.ok
          THEN /\ prompts' = updateDocument(code[r].promptId,
                    [status |-> FAILED, error |-> executeCodeError(run.error)])
               /\ code' = [code EXCEPT ![r] =
                    [pc |-> "done", promptId |-> code[r].promptId, wrote |-> FAILED,
                     insightsCall |-> "not_called"]]
        ELSE IF NeedsInsights(insights, run.results)
          THEN /\ prompts' = prompts
               /\ code' = [code EXCEPT ![r] =
                    [code[r] EXCEPT !.pc = "insights"] @@ [results |-> run.results]]
        ELSE /\ prompts' = updateDocument(code[r].promptId,
                  [status |-> COMPLETED,
                   executionResults |-> run.results,
                   insights |-> insights])
             /\ code' = [code EXCEPT ![r] =
                  [pc |-> "done", promptId |-> code[r].promptId, wrote |-> COMPLETED,
                   insightsCall |-> "not_called"]]
  /\ UNCHANGED <<create, proc, exec, call>>

\* Lines 419-427: claudeService.generateInsights answers, then
\* status := completed with the results and the insights.
executeCode_insights(r, reply) ==
  /\ ~eventLoopBlocked
  /\ code[r].pc = "insights"
  /\ prompts' = updateDocument(code[r].promptId,
       [status |-> COMPLETED,
        executionResults |-> code[r].results,
        insights |-> generateInsights(code[r].results, code[r].originalPrompt, reply)])
  /\ code' = [code EXCEPT ![r] =
       [pc |-> "done", promptId |-> code[r].promptId, wrote |-> COMPLETED,
        insightsCall |-> IF reply \in InsightFailures THEN "failed" ELSE "answered"]]
  /\ UNCHANGED <<create, proc, exec, call>>

\* ------------------------------------------------------ the read handlers
\* getPromptById, getResults and getPrompts read the prompts collection
\* once and answer; call holds the request and the response.

\* Lines 146-153 and 264-271: the error of the first two checks, Undefined
\* when they pass.
accessError(prompt, user) ==
  IF prompt = NoDoc
    THEN AppError(<<"Prompt not found">>, 404, "PROMPT_NOT_FOUND")
  ELSE IF AccessDenied(prompt, user)
    THEN AppError(<<"You do not have access to this prompt">>, 403, "ACCESS_DENIED")
  ELSE Undefined

\* Lines 171-172 and 288-289: executionResults?.visualizations || [] and
\* insights || [].
resultsOf(prompt) ==
  [visualizations |->
     OrElse(IF Truthy(prompt.executionResults)
              THEN Get(prompt.executionResults, "visualizations") ELSE Undefined,
            Arr(<<>>)),
   insights |-> OrElse(prompt.insights, Arr(<<>>))]

\* Lines 156-182: the response of getPromptById.
getPromptByIdResponse(prompt, user) ==
  IF accessError(prompt, user) # Undefined THEN accessError(prompt, user)
  ELSE [t |-> "ok",
        id |-> prompt.id,
        prompt |-> prompt.prompt,
        enhancedPrompt |-> prompt.enhancedPrompt,
        status |-> prompt.status,
        settings |-> prompt.settings,
        datasetIds |-> prompt.datasetIds,
        teamId |-> prompt.teamId,
        results |-> IF prompt.status = COMPLETED THEN resultsOf(prompt) ELSE Undefined,
        error |-> IF prompt.status = FAILED THEN prompt.error ELSE Undefined]

\* Variant of getPromptById that records the read on the document.
getPromptById_touch(id, user) ==
  /\ ~eventLoopBlocked
  /\ call' = [fn |-> "getPromptById", id |-> id, user |-> user,
              resp |-> getPromptByIdResponse(getDocument(prompts, id), user)]
  /\ prompts' = IF getDocument(prompts, id) = NoDoc THEN prompts
                ELSE updateDocument(id, [insights |-> Null])
  /\ UNCHANGED <<create, proc, exec, code>>

\* getPromptById, lines 138-187.
getPromptById(id, user) ==
  /\ ~eventLoopBlocked
  /\ call' = [fn |-> "getPromptById", id |-> id, user |-> user,
              resp |-> getPromptByIdResponse(getDocument(prompts, id), user)]
  /\ UNCHANGED <<prompts, create, proc, exec, code>>

\* Variant of getResultsResponse that also answers for a failed prompt.
getResultsResponse_failedToo(prompt, user) ==
  IF accessError(prompt, user) # Undefined THEN accessError(prompt, user)
  ELSE IF prompt.status \notin {COMPLETED, FAILED}
    THEN AppError(<<"Results not available yet">>, 404, "RESULTS_NOT_AVAILABLE")
  ELSE [t |-> "ok", promptId |-> prompt.id, status |-> prompt.status,
        visualizations |-> resultsOf(prompt).visualizations,
        insights |-> resultsOf(prompt).insights]

\* Lines 264-291: the response of getResults.
getResultsResponse(prompt, user) ==
  IF accessError(prompt, user) # Undefined THEN accessError(prompt, user)
  ELSE IF prompt.status # COMPLETED
    THEN AppError(<<"Results not available yet">>, 404, "RESULTS_NOT_AVAILABLE")
  ELSE [t |-> "ok", promptId |-> prompt.id, status |-> prompt.status,
        visualizations |-> resultsOf(prompt).visualizations,
        insights |-> resultsOf(prompt).insights]

\* getResults, lines 256-296.
getResults(id, user) ==
  /\ ~eventLoopBlocked
  /\ call' = [fn |-> "getResults", id |-> id, user |-> user,
              resp |-> getResultsResponse(getDocument(prompts, id), user)]
  /\ UNCHANGED <<prompts, create, proc, exec, code>>

\* Lines 86-93 and queryDocuments: the conditions of the query are all to
\* hold: userId == uid and, for a principal with a team, teamId == teamId.
Matches(prompt, user) ==
  IF prompt = NoDoc THEN FALSE
  ELSE /\ prompt.userId = user.uid
       /\ Truthy(user.teamId) => prompt.teamId = user.teamId

\* The documents of the query, the latest first, at most limit of them,
\* each mapped as in lines 104-113.
RECURSIVE promptList(_, _, _)
promptList(p, user, limit) ==
  IF p = 0 \/ limit = 0 THEN <<>>
  ELSE IF Matches(prompts[p], user)
    THEN << [id |-> p,
             prompt |-> prompts[p].prompt,
             status |-> prompts[p].status,
             datasetIds |-> prompts[p].datasetIds,
             hasResults |-> prompts[p].status = COMPLETED,
             hasError |-> prompts[p].status = FAILED,
             teamId |-> prompts[p].teamId] >>
         \o promptList(p - 1, user, limit - 1)
  ELSE promptList(p - 1, user, limit)

\* req.query.limit after parseInt(...) || 10.
Limits == {1, 10}

\* getPrompts, lines 77-130.
getPrompts(user, limit) ==
  /\ ~eventLoopBlocked
  /\ call' = [fn |-> "getPrompts", user |-> user,
              resp |-> [t |-> "ok", prompts |-> promptList(MaxPrompts, user, limit),
                        limit |-> limit]]
  /\ UNCHANGED <<prompts, create, proc, exec, code>>

Next ==
  \/ \E p \in PromptIds, text \in PromptTexts : createPrompt_invalid(p, text)
  \/ \E p \in PromptIds, user \in Creators, text \in PromptTexts,
        ds \in DatasetIdLists, st \in SettingsValues :
        createPrompt_save(p, user, text, ds, st)
  \/ \E p \in PromptIds : createPrompt_respond(p)
  \/ \E p \in PromptIds : processPrompt_processing(p)
  \/ \E p \in PromptIds, o \in EnrichOutcomes : processPrompt_enhance(p, o)
  \/ \E p \in PromptIds, reply \in CodeReplies : processPrompt_generate(p, reply)
  \/ \E r \in ExecReqs, id \in PromptIds, user \in Principals :
        executePrompt_reject(r, id, user)
  \/ \E r \in ExecReqs, id \in PromptIds, user \in Principals :
        executePrompt_accept(r, id, user)
  \/ \E r \in ExecReqs : executePrompt_executing(r)
  \/ \E r \in ExecReqs, b \in Behaviours : executeCode_run(r, b)
  \/ \E r \in ExecReqs, reply \in InsightReplies : executeCode_insights(r, reply)

Spec == Init /\ [][Next]_vars

\* The event loop runs every callback that is ready, and every external
\* call (the document store, the remote model) answers in the end.
LiveSpec == Init /\ [][Next]_vars /\ WF_vars(Next)

\* ------------------------------------------- rejected document writes
\* The error of a document write that the store rejects; it has a code of
\* the store's.
StoreError == [message |-> <<"store unavailable">>, code |-> Str(<<"unavailable">>)]

\* The answers of the store to the write of the catch of processPrompt.
CatchWrites == {"ok", "rejects"}

\* processPrompt, lines 308-346, when an updateDocument of the try rejects
\* (lines 310, 319 or 329, dbUtils lines 75-84): the write is not applied
\* and control passes to the catch, whose own updateDocument (line 338) is
\* awaited inside the catch.  When that write is applied the prompt is
\* failed; when it rejects too, the promise of processPrompt rejects, the
\* handler of createPrompt lines 52-54 logs the error, and the stage is
\* over with the stored document as it was.
processPrompt_writeRejects(p, catchWrite) ==
  /\ ~eventLoopBlocked
  /\ \/ proc[p].pc = "scheduled"
     \/ /\ proc[p].pc = "enhance"
        /\ \E o \in EnrichOutcomes :
             enhancePrompt(proc[p].promptText, proc[p].datasetIds, proc[p].user, o).ok
     \/ /\ proc[p].pc = "generate"
        /\ \E reply \in CodeReplies : generateCode(proc[p].enhancedPrompt, reply).ok
  /\ IF catchWrite = "ok"
       THEN processPrompt_catch(p, StoreError)
       ELSE /\ prompts' = prompts
            /\ proc' = [proc EXCEPT ![p] = [pc |-> "done"]]
  /\ UNCHANGED <<create, exec, code, call>>

FaultNext ==
  \/ Next
  \/ \E p \in PromptIds, w \in CatchWrites : processPrompt_writeRejects(p, w)

\* Fair scheduling, and every call to the store answers: it is applied or
\* it rejects.
FaultSpec == Init /\ [][FaultNext]_vars /\ WF_vars(FaultNext)

\* ------------------------------------------------------- service calls
\* The functions of claudeService and contextEnricher called on their own:
\* call holds the arguments of the latest call and what it gave.
ResultValues == { b.value : b \in { x \in Behaviours : x.kind = "return" } }

RequestTexts == { text \in PromptTexts : ~IsBlank(text) }

EnrichIdLists == { <<>>, <<"ds1", "ds2">> }

generateInsights_call(results, originalPrompt, reply) ==
  /\ call' = [fn |-> "generateInsights", results |-> results, reply |-> reply,
              outcome |-> generateInsights_outcome(results, originalPrompt, reply)]
  /\ UNCHANGED <<prompts, create, proc, exec, code>>

generateCode_call(enhancedPrompt, reply) ==
  /\ call' = [fn |-> "generateCode", reply |-> reply,
              outcome |-> generateCode(enhancedPrompt, reply)]
  /\ UNCHANGED <<prompts, create, proc, exec, code>>

enhancePrompt_call(prompt, datasetIds, user, env) ==
  /\ call' = [fn |-> "enhancePrompt", datasetIds |-> datasetIds, user |-> user,
              env |-> env, outcome |-> enhancePrompt(prompt, datasetIds, user, env)]
  /\ UNCHANGED <<prompts, create, proc, exec, code>>

runGeneratedCode_call(b, datasetIds) ==
  /\ call' = [fn |-> "runGeneratedCode", b |-> b, datasetIds |-> datasetIds,
              outcome |-> runGeneratedCode(b, [datasets |-> datasetSamples(datasetIds),
                                               options |-> ExecutionOptions])]
  /\ UNCHANGED <<prompts, create, proc, exec, code>>

ServiceNext ==
  \/ \E b \in { x \in Behaviours : x.kind # "loop" } \cup HostBehaviours,
        ids \in EnrichIdLists :
        runGeneratedCode_call(b, ids)
  \/ \E results \in ResultValues, text \in RequestTexts, reply \in InsightReplies :
        generateInsights_call(results, text.s, reply)
  \/ \E text \in RequestTexts, reply \in CodeReplies :
        generateCode_call(Str(<<"ORIGINAL REQUEST: ">> \o text.s), reply)
  \/ \E text \in RequestTexts, ids \in EnrichIdLists, user \in Principals,
        env \in EnrichEnvs :
        enhancePrompt_call(text, ids, user, env)

ServiceSpec == Init /\ [][ServiceNext]_vars

\* ------------------------------------------------------------- the reads
\* The data of the terminal writes of executeCode: lines 423-427 for the
\* runs that succeed, with the insights of the results or of
\* generateInsights, and lines 433-441 for a run that fails.
CompletedWrites ==
  UNION { LET run == runGeneratedCode(b, [datasets |-> <<>>, options |-> ExecutionOptions])
              insights == OrElse(Get(run.results, "insights"), Arr(<<>>))
          IN IF ~run.ok THEN {}
             ELSE { [status |-> COMPLETED, executionResults |-> run.results,
                     insights |-> i] :
                    i \in IF NeedsInsights(insights, run.results)
                            THEN { generateInsights(run.results, <<>>, reply) :
                                   reply \in InsightReplies }
                            ELSE {insights} } :
          b \in { x \in Behaviours : x.kind # "loop" } }

FailedWrites ==
  { [status |-> FAILED,
     error |-> executeCodeError(CodeExecutionError(<<"boom">>))] }

\* The documents a prompt of user can be stored as: after createPrompt,
\* after each write of processPrompt, and after the writes of
\* executePrompt and executeCode in any number and order.
StoredPromptsOf(p, user) ==
  LET text == Str(<<"Show revenue trend">>)
      created == promptData(p, user, text, <<"ds1", "ds2">>, [visualizationType |-> "bar"])
      processing == merge(created, [status |-> PROCESSING])
      enriched == { enhancePrompt(text, <<"ds1", "ds2">>, user, env) : env \in EnrichOutcomes }
      enhanced == CHOOSE r \in enriched : r.ok
      stored == merge(processing, [enhancedPrompt |-> enhanced.value])
      generated == merge(stored,
                         [generatedCode |-> Str(<<"function analyze(context) { ... }">>),
                          status |-> GENERATED])
      failures == { r.error : r \in { x \in enriched : ~x.ok } }
      results == { [executionResults |-> w.executionResults, insights |-> w.insights] :
                   w \in CompletedWrites }
                 \cup { [executionResults |-> Null, insights |-> Null] }
      errors == { [error |-> w.error] : w \in FailedWrites } \cup { [error |-> Null] }
  IN { created, processing, stored, generated }
     \cup { merge(processing, [status |-> FAILED, error |-> processPromptError(e)]) :
            e \in failures }
     \cup { d \in { merge(merge(merge(generated, r), e), [status |-> st]) :
                    r \in results, e \in errors, st \in {EXECUTING, COMPLETED, FAILED} } :
              /\ d.status = COMPLETED => d.executionResults # Null
              /\ d.status = FAILED => d.error # Null }

StoredPrompts(p) == UNION { StoredPromptsOf(p, user) : user \in Creators }

ReadInit ==
  /\ prompts \in [PromptIds -> UNION { StoredPrompts(p) : p \in PromptIds } \cup {NoDoc}]
  /\ \A p \in PromptIds : IF prompts[p] = NoDoc THEN TRUE ELSE prompts[p].id = p
  /\ \A p \in PromptIds : prompts[p] = NoDoc => \A q \in PromptIds : q > p => prompts[q] = NoDoc
  /\ create = [p \in PromptIds |-> IdleCreate]
  /\ proc = [p \in PromptIds |-> IdleProc]
  /\ exec = [r \in ExecReqs |-> IdleExec]
  /\ code = [r \in ExecReqs |-> IdleCode]
  /\ call = IdleCall

ReadNext ==
  \/ \E id \in PromptIds, user \in Principals : getPromptById(id, user)
  \/ \E id \in PromptIds, user \in Principals : getResults(id, user)
  \/ \E user \in Principals, limit \in Limits : getPrompts(user, limit)

ReadSpec == ReadInit /\ [][ReadNext]_vars

\* ======================================================================
\* The claims
\* ======================================================================
Docs == { p \in PromptIds : prompts[p] # NoDoc }

\* C1: every change of a persisted prompt's status is one of
\* created->processing, processing->generated, generated->executing,
\* executing->completed, processing->failed, executing->failed.
LegalTransitions ==
  { <<CREATED, PROCESSING>>, <<PROCESSING, GENERATED>>, <<GENERATED, EXECUTING>>,
    <<EXECUTING, COMPLETED>>, <<PROCESSING, FAILED>>, <<EXECUTING, FAILED>> }

C1_OnlyLegalTransitions ==
  [][\A p \in Docs :
       prompts'[p].status # prompts[p].status
         => <<prompts[p].status, prompts'[p].status>> \in LegalTransitions]_vars

\* C2: executePrompt by a principal with access, on a prompt whose status
\* is not generated, ends with INVALID_PROMPT_STATE, writes nothing to the
\* prompts collection and schedules no executeCode; a request that was
\* rejected never has an executeCode stage.
C2_RejectedUnlessGenerated ==
  [][/\ \A r \in ExecReqs, id \in PromptIds, user \in Principals :
          ( /\ id \in Docs
            /\ ~AccessDenied(prompts[id], user)
            /\ prompts[id].status # GENERATED
            /\ (executePrompt_reject(r, id, user) \/ executePrompt_accept(r, id, user)) )
          => /\ exec'[r].pc = "done"
             /\ exec'[r].resp.t = "error"
             /\ exec'[r].resp.errorCode = "INVALID_PROMPT_STATE"
             /\ exec'[r].resp.statusCode = 400
             /\ prompts' = prompts
             /\ code' = code
     /\ \A r \in ExecReqs :
          (exec'[r].pc = "done" /\ exec'[r].resp.t = "error") => code'[r].pc = "none"]_vars

\* C2 witness: a request has been rejected with INVALID_PROMPT_STATE while
\* the prompt it may have aimed at is completed.
C2_Witness ==
  \E r \in ExecReqs, p \in Docs :
    /\ exec[r].pc = "done"
    /\ exec[r].resp.t = "error"
    /\ exec[r].resp.errorCode = "INVALID_PROMPT_STATE"
    /\ prompts[p].status = COMPLETED
    /\ code[r].pc = "none"

\* C3: of the executePrompt calls on one prompt, at most one leads to a
\* terminal write of executeCode (completed or failed).
C3_OneTerminalWrite ==
  \A p \in PromptIds :
    Cardinality({ r \in ExecReqs : code[r].pc = "done" /\ code[r].promptId = p }) <= 1

\* C4: once the status of a prompt is completed or failed, no step changes
\* its status, executionResults, insights or error.
C4_TerminalAbsorbing ==
  [][\A p \in Docs :
       prompts[p].status \in {COMPLETED, FAILED}
         => /\ prompts'[p].status = prompts[p].status
            /\ prompts'[p].executionResults = prompts[p].executionResults
            /\ prompts'[p].insights = prompts[p].insights
            /\ prompts'[p].error = prompts[p].error]_vars

\* C5: executionResults and insights are non-null only if the status is
\* completed.
C5_ResultsOnlyWhenCompleted ==
  \A p \in Docs :
    (prompts[p].executionResults # Null \/ prompts[p].insights # Null)
      => prompts[p].status = COMPLETED

\* C6: the error record is non-null only if the status is failed.
C6_ErrorOnlyWhenFailed ==
  \A p \in Docs : prompts[p].error # Null => prompts[p].status = FAILED

\* C7: the response of createPrompt (promptId, status created) is sent
\* after the created record is stored and no later than the scheduling of
\* processPrompt, so before processPrompt performs any step; while the
\* handler has not answered, no stage of the prompt exists.
C7_ResponseBeforeProcessing ==
  \A p \in PromptIds :
    /\ (create[p].resp.t = "ok")
         => (p \in Docs /\ create[p].resp = [t |-> "ok", promptId |-> p, status |-> CREATED])
    /\ proc[p].pc # "none" => create[p].resp.t = "ok"
    /\ create[p].pc = "saved" => (p \in Docs /\ prompts[p].status = CREATED)

\* C7 witness: the response is out, the record is stored with status
\* created and processPrompt is scheduled but has not run.
C7_Witness ==
  \E p \in Docs :
    /\ create[p].resp.t = "ok"
    /\ prompts[p].status = CREATED
    /\ proc[p].pc = "scheduled"

\* C8: when enrichment or code generation throws, the write of the catch
\* of processPrompt sets status failed with stage code_generation and the
\* message and the code of the thrown exception, and does not set
\* generated.
C8_GenerationFailureRecorded ==
  [][\A p \in PromptIds :
       /\ \A o \in EnrichOutcomes :
            LET r == enhancePrompt(proc[p].promptText, proc[p].datasetIds, proc[p].user, o)
            IN (processPrompt_enhance(p, o) /\ ~r.ok)
                 => /\ prompts'[p].status = FAILED
                    /\ prompts'[p].error.stage = "code_generation"
                    /\ prompts'[p].error.message = r.error.message
                    /\ prompts'[p].error.code = Str(<<r.error.errorCode>>)
       /\ \A reply \in CodeReplies :
            LET r == generateCode(proc[p].enhancedPrompt, reply)
            IN (processPrompt_generate(p, reply) /\ ~r.ok)
                 => /\ prompts'[p].status = FAILED
                    /\ prompts'[p].error.stage = "code_generation"
                    /\ prompts'[p].error.message = r.error.message
                    /\ prompts'[p].error.code = Str(<<r.error.errorCode>>)]_vars

\* C9: when running the generated code fails (a syntax error, a runtime
\* error, a result that carries an error field), the terminal write of
\* that executeCode run is failed with stage code_execution.
RunFails(b) ==
  IF b.kind \in {"syntax", "throw"} THEN TRUE
  ELSE IF b.kind = "return" THEN b.value.t = "object" /\ b.value.error # Undefined
  ELSE FALSE

C9_ExecutionFailureRecorded ==
  [][\A r \in ExecReqs, b \in Behaviours :
       (RunFails(b) /\ executeCode_run(r, b))
         => /\ code'[r].pc = "done"
            /\ code'[r].wrote = FAILED
            /\ prompts'[code[r].promptId].status = FAILED
            /\ prompts'[code[r].promptId].error.stage = "code_execution"]_vars

\* C10: a result with visualizations and an empty insights list makes
\* executeCode call generateInsights; when that call fails the insights
\* are [] and the terminal write of the run is completed with insights [].
VizNoInsights(b) ==
  /\ b.kind = "return"
  /\ b.value.t = "object"
  /\ b.value.visualizations.t = "arr"
  /\ b.value.insights = Arr(<<>>)
  /\ ~Truthy(b.value.error)

C10_InsightFallback ==
  [][\A r \in ExecReqs :
       /\ \A b \in Behaviours :
            (VizNoInsights(b) /\ executeCode_run(r, b))
              => (code'[r].pc = "insights" /\ prompts' = prompts)
       /\ (code[r].pc = "insights" /\ code'[r].pc # "insights"
             /\ code'[r].insightsCall = "failed")
            => /\ code'[r].pc = "done"
               /\ code'[r].wrote = COMPLETED
               /\ prompts'[code[r].promptId].status = COMPLETED
               /\ prompts'[code[r].promptId].insights = Arr(<<>>)
               /\ prompts'[code[r].promptId].executionResults = code[r].results]_vars

\* C10 witness: a run whose generateInsights call failed has written
\* completed, and the prompt is completed with insights [].
C10_Witness ==
  \E r \in ExecReqs :
    /\ code[r].pc = "done"
    /\ code[r].insightsCall = "failed"
    /\ code[r].wrote = COMPLETED
    /\ prompts[code[r].promptId].status = COMPLETED
    /\ prompts[code[r].promptId].insights = Arr(<<>>)
    /\ prompts[code[r].promptId].executionResults.visualizations.t = "arr"

\* Tokens of a text.
Tokens(text) == { text.s[i] : i \in 1..Len(text.s) }

\* C11: generateInsights never throws: when the remote call fails, the
\* body is malformed, the text is not JSON or the JSON is not an array it
\* returns the empty list, and otherwise it returns the parsed array.
C11_InsightsNeverThrow ==
  call.fn = "generateInsights"
    => /\ ~call.outcome.threw
       /\ call.outcome.value =
            (IF call.reply \in InsightFailures THEN Arr(<<>>) ELSE call.reply.json)

\* C11 witness: the remote call failed and generateInsights returned [].
C11_Witness ==
  /\ call.fn = "generateInsights"
  /\ call.reply.kind = "network_error"
  /\ ~call.outcome.threw
  /\ call.outcome.value = Arr(<<>>)

\* C12: generateCode either returns code that is not empty or blank, or
\* fails with an upstream error; it fails whenever the remote call errors or
\* the returned text is empty or whitespace only.
C12_CodeOrUpstreamError ==
  call.fn = "generateCode"
    => /\ call.outcome.ok
            => /\ call.reply.kind = "ok"
               /\ call.outcome.generatedCode.t = "str"
               /\ Trim(call.outcome.generatedCode.s) # <<>>
       /\ ~call.outcome.ok
            => call.outcome.error.errorCode \in {"CLAUDE_API_ERROR", "CLAUDE_SERVICE_ERROR"}
       /\ (IF call.reply.kind = "ok" THEN IsBlank(call.reply.text) ELSE TRUE)
            => ~call.outcome.ok

\* C12 witness: the remote model answered with a blank text and
\* generateCode failed.
C12_Witness ==
  /\ call.fn = "generateCode"
  /\ call.reply.kind = "ok"
  /\ call.reply.text = Str(<<" ">>)
  /\ ~call.outcome.ok

\* The prompt a read request names, and whether its caller passes the
\* ownership check.
Asked == getDocument(prompts, call.id)

\* C13: getResults by a principal with access fails with
\* RESULTS_NOT_AVAILABLE for every prompt whose status is not completed,
\* and for a completed prompt answers with the stored visualizations (none
\* stored: the empty list) and the stored insights.
C13_ResultsOnlyWhenCompleted ==
  (call.fn = "getResults" /\ accessError(Asked, call.user) = Undefined)
    => IF Asked.status # COMPLETED
         THEN /\ call.resp.t = "error"
              /\ call.resp.errorCode = "RESULTS_NOT_AVAILABLE"
         ELSE /\ call.resp.t = "ok"
              /\ call.resp.visualizations =
                   (IF Asked.executionResults.t = "object"
                       /\ Asked.executionResults.visualizations.t = "arr"
                      THEN Asked.executionResults.visualizations ELSE Arr(<<>>))
              /\ call.resp.insights = Asked.insights

\* C13 witness: getResults answered for a completed prompt with its stored
\* chart.
C13_Witness ==
  /\ call.fn = "getResults"
  /\ call.resp.t = "ok"
  /\ Asked.status = COMPLETED
  /\ call.resp.visualizations = Arr(<<"chart">>)
  /\ call.resp.insights = Asked.insights

\* C14: getPromptById and getResults answer PROMPT_NOT_FOUND for a missing
\* prompt and ACCESS_DENIED to every principal who is neither the owner of
\* the prompt nor a member of the team of the prompt; a prompt without a
\* team (teamId null) has no members.
IsMember(prompt, user) == Truthy(prompt.teamId) /\ user.teamId = prompt.teamId

C14_AccessDenied ==
  call.fn \in {"getPromptById", "getResults"}
    => IF Asked = NoDoc
         THEN call.resp.t = "error" /\ call.resp.errorCode = "PROMPT_NOT_FOUND"
         ELSE (Asked.userId # call.user.uid /\ ~IsMember(Asked, call.user))
                => (call.resp.t = "error" /\ call.resp.errorCode = "ACCESS_DENIED")

\* C19: the read handlers write nothing to the prompts collection, and a
\* getPromptById call that follows a getPromptById call of the same
\* principal on the same completed prompt gives the same response, with
\* the same visualizations and insights.
C19_ReadsWriteNothing ==
  [][/\ prompts' = prompts
     /\ ( /\ call.fn = "getPromptById"
          /\ call'.fn = "getPromptById"
          /\ call'.id = call.id
          /\ call'.user = call.user
          /\ call.resp.t = "ok"
          /\ call.resp.status = COMPLETED )
        => /\ call'.resp.t = "ok"
           /\ call'.resp.results = call.resp.results
           /\ call'.resp = call.resp]_vars

\* C19 witness: getPromptById answered for a completed prompt with the
\* stored chart and insights, and the prompt is stored as it was.
C19_Witness ==
  /\ call.fn = "getPromptById"
  /\ call.resp.t = "ok"
  /\ call.resp.status = COMPLETED
  /\ call.resp.results.visualizations = Arr(<<"chart">>)
  /\ call.resp.results.insights = Arr(<<"llm insight">>)
  /\ Asked.status = COMPLETED

\* The documents of the ids of an enhancePrompt call, and what the enriched
\* text holds.
AskedDatasets ==
  { getDocument(call.env.datasets, call.datasetIds[i]) : i \in 1..Len(call.datasetIds) }
    \ {NoDoc}

Inaccessible(ds, user) == ds.ownerId # user.uid /\ ~Truthy(ds.teamId)

Retained(ds, user) == ds.ownerId = user.uid \/ Truthy(ds.teamId)

\* C15: when the datasets of a request answer, a dataset that belongs to
\* another user and is shared with no team is absent from the enriched
\* text, enhancePrompt does not raise because of it, and the datasets of
\* the principal in the same request are in the text.
C15_InaccessibleDatasetExcluded ==
  ( /\ call.fn = "enhancePrompt"
    /\ call.env.userContext = "ok"
    /\ call.env.fetch = "ok" )
    => /\ call.outcome.ok
       /\ \A ds \in AskedDatasets :
            /\ Inaccessible(ds, call.user) => ds.name \notin Tokens(call.outcome.value)
            /\ ds.ownerId = call.user.uid
                 => /\ ds.name \in Tokens(call.outcome.value)
                    /\ "DATASETS:" \in Tokens(call.outcome.value)

\* C15 witness: the request of u1 names a dataset of u1 and a private
\* dataset of u2; the text has the first and not the second.
C15_Witness ==
  /\ call.fn = "enhancePrompt"
  /\ call.user.uid = "u1"
  /\ call.datasetIds = <<"ds1", "ds2">>
  /\ call.env.datasets["ds1"] = DatasetDoc("ds1", "u1", Null, Arr(<<"row1">>))
  /\ call.env.datasets["ds2"] = DatasetDoc("ds2", "u2", Null, Undefined)
  /\ call.outcome.ok
  /\ "ds1" \in Tokens(call.outcome.value)
  /\ "ds2" \notin Tokens(call.outcome.value)

\* C16: for a principal with a team, when the team record cannot be read
\* or does not exist and nothing else fails, enhancePrompt returns an
\* enriched text, whose team section is empty.
C16_TeamContextOptional ==
  ( /\ call.fn = "enhancePrompt"
    /\ Truthy(call.user.teamId)
    /\ call.env.team \in {"missing", "throws"}
    /\ call.env.userContext = "ok" )
    => /\ call.outcome.ok
       /\ "TEAM CONTEXT:" \notin Tokens(call.outcome.value)
       /\ "ORIGINAL REQUEST: " \in Tokens(call.outcome.value)
       /\ "CODE GENERATION INSTRUCTIONS:" \in Tokens(call.outcome.value)

\* C16 witness: the read of the team record threw and enhancePrompt
\* returned a text.
C16_Witness ==
  /\ call.fn = "enhancePrompt"
  /\ Truthy(call.user.teamId)
  /\ call.env.team = "throws"
  /\ call.outcome.ok
  /\ "TEAM CONTEXT:" \notin Tokens(call.outcome.value)

\* C17: when the sample data of a retained dataset cannot be downloaded or
\* parsed, the enriched text carries the note "Error retrieving dataset
\* information." for it, the sections of the retained datasets are in the
\* text and enhancePrompt succeeds.
C17_SampleFailureNoted ==
  ( /\ call.fn = "enhancePrompt"
    /\ call.env.userContext = "ok"
    /\ call.env.fetch = "ok"
    /\ call.env.download = "fails"
    /\ \E ds \in AskedDatasets :
         Retained(ds, call.user) /\ ~Truthy(ds.schema.sampleData) )
    => /\ call.outcome.ok
       /\ "Error retrieving dataset information." \in Tokens(call.outcome.value)
       /\ \A ds \in AskedDatasets :
            Retained(ds, call.user) => ds.name \in Tokens(call.outcome.value)

\* C18: the settings, the prompt text, the datasetIds, the userId and the
\* teamId a prompt was created with are left as they are by every later
\* update of the pipeline.
C18_CreationFieldsKept ==
  [][\A p \in Docs :
       /\ prompts'[p].settings = prompts[p].settings
       /\ prompts'[p].prompt = prompts[p].prompt
       /\ prompts'[p].datasetIds = prompts[p].datasetIds
       /\ prompts'[p].userId = prompts[p].userId
       /\ prompts'[p].teamId = prompts[p].teamId]_vars

\* C18 witness: a prompt created with visualizationType "bar" is completed,
\* after the updates of processPrompt, executePrompt and executeCode, and
\* still has its settings, text and datasetIds.
C18_Witness ==
  \E p \in Docs :
    /\ prompts[p].status = COMPLETED
    /\ prompts[p].enhancedPrompt # Null
    /\ prompts[p].generatedCode # Null
    /\ prompts[p].settings = [visualizationType |-> "bar"]
    /\ prompts[p].prompt = Str(<<"Show revenue trend">>)
    /\ prompts[p].datasetIds = <<"ds1", "ds2">>

\* C20: a prompt whose status is executing reaches completed or failed in
\* the end, also when its generated code does not return by itself.
StatusOf(p) == IF prompts[p] = NoDoc THEN "none" ELSE prompts[p].status

C20_ExecutionTerminates ==
  \A p \in PromptIds :
    (StatusOf(p) = EXECUTING) ~> (StatusOf(p) \in {COMPLETED, FAILED})

\* C21: generated code that reads an environment variable or opens a
\* network socket makes the execution fail with CODE_EXECUTION_ERROR; no
\* result of a run depends on the state of the host.
C21_SandboxBoundary ==
  (call.fn = "runGeneratedCode" /\ call.b.kind = "host")
    => /\ ~call.outcome.ok
       /\ call.outcome.error.errorCode = "CODE_EXECUTION_ERROR"

\* C22: no executeCode stage of a request exists, and no executing
\* response of a request is out, while the stored status of the prompt of
\* the request is generated.
C22_ExecutingStoredBeforeLaunch ==
  \A r \in ExecReqs :
    /\ code[r].pc # "none" => prompts[code[r].promptId].status # GENERATED
    /\ exec[r].resp.t = "ok" => prompts[exec[r].resp.promptId].status # GENERATED

\* C22 witness: the response of a request is out, its executeCode stage is
\* scheduled and has not run, and the stored status is executing.
C22_Witness ==
  \E r \in ExecReqs :
    /\ exec[r].resp.t = "ok"
    /\ code[r].pc = "scheduled"
    /\ prompts[code[r].promptId].status = EXECUTING

\* C23: what a stage acts on is what is stored when it runs: for
\* executeCode the generated code, the dataset ids and the status executing
\* of its prompt, for processPrompt the prompt text and the dataset ids.
C23_StagesActOnStoredRecord ==
  [][/\ \A r \in ExecReqs, b \in Behaviours :
          executeCode_run(r, b)
            => /\ prompts[code[r].promptId].status = EXECUTING
               /\ prompts[code[r].promptId].generatedCode = code[r].code
               /\ prompts[code[r].promptId].datasetIds = code[r].datasetIds
     /\ \A p \in PromptIds, o \in EnrichOutcomes :
          processPrompt_enhance(p, o)
            => /\ prompts[p].prompt = proc[p].promptText
               /\ prompts[p].datasetIds = proc[p].datasetIds]_vars

C25_NonObjectRejected ==
  [][\A r \in ExecReqs, b \in Behaviours :
       (b.kind = "return" /\ b.value.t # "object" /\ executeCode_run(r, b))
         => /\ code'[r].pc = "done"
            /\ code'[r].wrote = FAILED
            /\ prompts'[code[r].promptId].status = FAILED
            /\ prompts'[code[r].promptId].executionResults
                 = prompts[code[r].promptId].executionResults]_vars

\* C26: on a run that succeeds, generateInsights is called exactly when the
\* result has no insights (none, or the empty list), with or without
\* visualizations; a result with insights is stored with them.
HasNoInsights(results) ==
  IF ~Truthy(Get(results, "insights")) THEN TRUE
  ELSE Get(results, "insights") = Arr(<<>>)

C26_InsightsIffMissing ==
  [][\A r \in ExecReqs, b \in Behaviours :
       LET run == runGeneratedCode(b, [datasets |-> datasetSamples(code[r].datasetIds),
                                       options |-> code[r].options])
       IN (b.kind # "loop" /\ executeCode_run(r, b))
            => (run.ok
                  => IF HasNoInsights(run.results)
                       THEN code'[r].pc = "insights"
                       ELSE /\ code'[r].pc = "done"
                            /\ code'[r].insightsCall = "not_called"
                            /\ prompts'[code[r].promptId].insights
                                 = Get(run.results, "insights"))]_vars

\* C28: a prompt whose stored status is failed has an error record with a
\* message, a code and a stage: code_generation when the prompt has no
\* generated code, code_execution when it has.
C28_FailedHasErrorRecord ==
  \A p \in Docs :
    prompts[p].status = FAILED
      => /\ prompts[p].error # Null
         /\ prompts[p].error.message # <<>>
         /\ Truthy(prompts[p].error.code)
         /\ prompts[p].error.stage =
              (IF prompts[p].generatedCode = Null
                 THEN "code_generation" ELSE "code_execution")

\* C28 witness: a prompt with generated code is failed with an error record
\* of the stage code_execution.
C28_Witness ==
  \E p \in Docs :
    /\ prompts[p].status = FAILED
    /\ prompts[p].generatedCode # Null
    /\ prompts[p].error # Null
    /\ prompts[p].error.stage = "code_execution"

\* C27: when the datasets of a request answer, a dataset is in the enriched
\* text only if the principal owns it or it is scoped to the team of the
\* principal; a dataset of another owner scoped to another team is absent.
C27_OnlyOwnTeamRetained ==
  ( /\ call.fn = "enhancePrompt"
    /\ call.env.userContext = "ok"
    /\ call.env.fetch = "ok" )
    => /\ call.outcome.ok
       /\ \A ds \in AskedDatasets :
            ds.name \in Tokens(call.outcome.value)
              => \/ ds.ownerId = call.user.uid
                 \/ /\ Truthy(ds.teamId)
                    /\ ds.teamId = call.user.teamId

\* C29: with fair scheduling and a store whose every call answers, a
\* prompt that is created or processing is generated or failed in the end,
\* also when a document write of processPrompt is rejected.
C29_LeavesPreGeneration ==
  \A p \in PromptIds :
    (StatusOf(p) \in {CREATED, PROCESSING}) ~> (StatusOf(p) \in {GENERATED, FAILED})

\* C30: every dataset whose sample rows executeCode puts into the context
\* of the executed code passes the access test of addDatasetContext for
\* the principal that submitted the prompt.
C30_ExecutionDataWithinAccess ==
  [][ \A r \in ExecReqs, b \in Behaviours :
        executeCode_run(r, b)
          => LET samples == datasetSamples(code[r].datasetIds)
             IN \A i \in 1..Len(samples) :
                  CanUse(getDocument(Datasets, samples[i].id),
                         prompts[code[r].promptId].userId) ]_vars

====
